---- MODULE Spec2Model ----
(***************************************************************************)
(* The /media-stream relay of src/index.js: one Call Session per carrier   *)
(* (Twilio) websocket connection, each with its own streamSid and its own  *)
(* AI (ElevenLabs) websocket.  An emitted frame is a call of send() made   *)
(* by the relay; what the ws library does with it is outside the source.   *)
(***************************************************************************)
EXTENDS Naturals, Sequences, FiniteSets

(* ------------------------------ bounds -------------------------------- *)

\* Per session, the number of received messages that are recorded in the
\* history logs (carrier media; AI audio, interruption and ping).
MaxLog == 2

\* The number of POST /make-outbound-call requests.
MaxRequests == 2

\* The connections that may exist; Spec runs the first one alone.
Sessions == {"c1", "c2"}
SingleSession == {"c1"}

(* ----------------------------- JS values ------------------------------ *)

\* A JavaScript / JSON value: number, string, null, undefined.  On the wire
\* (JSON text) a key is either present with a value or absent; in the
\* program, reading an absent key gives undefined.
JsVal(t, n, s) == [t |-> t, n |-> n, s |-> s]
Undefined == JsVal("undefined", 0, "")
Null == JsVal("null", 0, "")
Absent == JsVal("absent", 0, "")
Num(n) == JsVal("number", n, "")
Str(s) == JsVal("string", 0, s)

\* JSON.parse then property access: an absent key reads as undefined.
JsonGet(w) == IF w.t = "absent" THEN Undefined ELSE w

\* JSON.stringify of an object property: undefined omits the key.
JsonPut(v) == IF v.t = "undefined" THEN Absent ELSE v

\* The truthiness test of `if (x)`.
Truthy(v) ==
  CASE v.t = "number" -> v.n # 0
    [] v.t = "string" -> v.s # ""
    [] OTHER -> FALSE

(* ------------------------------ messages ------------------------------ *)

\* A message as received on a socket.  ok: JSON.parse succeeds; type: the
\* event / type property; body: the nested object (start, media,
\* audio_event, ping_event) is present; val: the wire value of the nested
\* property (streamSid, payload, audio_base_64, event_id).
Msg(ok, type, body, val) == [ok |-> ok, type |-> type, body |-> body, val |-> val]
Garbage == Msg(FALSE, "", FALSE, Absent)
NoMsg == Msg(FALSE, "none", FALSE, Absent)

StreamSids == {Str("MZ1"), Str("MZ2")}
Payloads == {Str("pA"), Str("pB")}
EventIds == {Num(0), Num(7)}

CarrierMsgs ==
  {Garbage}
    \cup {Msg(TRUE, "start", TRUE, v) : v \in StreamSids}
    \cup {Msg(TRUE, "start", FALSE, Absent)}
    \cup {Msg(TRUE, "media", TRUE, v) : v \in Payloads \cup {Absent}}
    \cup {Msg(TRUE, "media", FALSE, Absent)}
    \cup {Msg(TRUE, "stop", FALSE, Absent), Msg(TRUE, "mark", FALSE, Absent)}

AiMsgs ==
  {Garbage}
    \cup {Msg(TRUE, "conversation_initiation_metadata", FALSE, Absent)}
    \cup {Msg(TRUE, "audio", TRUE, v) : v \in Payloads \cup {Str(""), Absent}}
    \cup {Msg(TRUE, "audio", FALSE, Absent)}
    \cup {Msg(TRUE, "interruption", FALSE, Absent)}
    \cup {Msg(TRUE, "ping", TRUE, v) : v \in EventIds \cup {Absent}}
    \cup {Msg(TRUE, "ping", FALSE, Absent)}
    \cup {Msg(TRUE, "agent_response", FALSE, Absent)}

(* ------------------------------- frames ------------------------------- *)

\* JSON.stringify({ event: "media", streamSid, media: { payload } })
MediaFrame(sid, payload) ==
  [event |-> "media", streamSid |-> JsonPut(sid), payload |-> JsonPut(payload)]

\* JSON.stringify({ event: "clear", streamSid })
ClearFrame(sid) ==
  [event |-> "clear", streamSid |-> JsonPut(sid), payload |-> Absent]

\* JSON.stringify({ user_audio_chunk: payload })
ChunkFrame(payload) == [type |-> "user_audio_chunk", val |-> JsonPut(payload)]

\* JSON.stringify({ type: "pong", event_id })
PongFrame(id) == [type |-> "pong", val |-> JsonPut(id)]

(* ------------------------------- state -------------------------------- *)

VARIABLES
  connection,     \* the carrier socket: "absent", "open", "closing", "closed"
  readyState,     \* elevenLabsWs.readyState: "none", "connecting", "open",
                  \* "closing", "closed"
  streamSid,      \* let streamSid
  sentToCarrier,  \* the frames passed to connection.send, in order
  sentToAi,       \* the frames passed to elevenLabsWs.send, in order
  aiCreated,      \* history: number of `new WebSocket` calls of the session
  recvMedia,      \* history: payloads of the carrier media frames received
  recvAi,         \* history: the AI audio, interruption and ping messages received
  lastStart,      \* history: identifier of the last start frame processed
  stopSeen,       \* history: a carrier stop frame has been processed
  last,           \* history: the handler that ran last, and what it did
  http,           \* the POST /make-outbound-call requests and their replies
  created         \* the calls of twilioClient.calls.create, in order

relayVars ==
  <<connection, readyState, streamSid, sentToCarrier, sentToAi, aiCreated,
    recvMedia, recvAi, lastStart, stopSeen, last>>

httpVars == <<http, created>>

vars == <<relayVars, httpVars>>

NoStart == JsVal("none", 0, "")

Requests == 1..MaxRequests

\* request.body: defined is FALSE for a request without a body; to is the
\* wire value of the destination-number field.
Body(defined, to) == [defined |-> defined, to |-> to]
NoBody == Body(FALSE, Absent)

Destinations == {Str("+15551234567"), Str("+15557654321")}
Bodies == {NoBody} \cup {Body(TRUE, v) : v \in Destinations \cup {Str(""), Absent}}
CallSids == {"CA123", "CA456"}

\* A request: where its handler is, what it received, what the provider
\* answered and what was replied.
Request(pc, body, provider, status, error, callSid) ==
  [pc |-> pc, body |-> body, provider |-> provider, status |-> status,
   error |-> error, callSid |-> callSid]
NotReceived == Request("idle", NoBody, "", 0, "", "")

Ran(s, op, msg, aiBefore, toCarrier, toAi) ==
  [s |-> s, op |-> op, msg |-> msg, aiBefore |-> aiBefore,
   toCarrier |-> toCarrier, toAi |-> toAi]

Init ==
  /\ connection = [s \in Sessions |-> "absent"]
  /\ readyState = [s \in Sessions |-> "none"]
  /\ streamSid = [s \in Sessions |-> Null]
  /\ sentToCarrier = [s \in Sessions |-> <<>>]
  /\ sentToAi = [s \in Sessions |-> <<>>]
  /\ aiCreated = [s \in Sessions |-> 0]
  /\ recvMedia = [s \in Sessions |-> <<>>]
  /\ recvAi = [s \in Sessions |-> <<>>]
  /\ lastStart = [s \in Sessions |-> NoStart]
  /\ stopSeen = [s \in Sessions |-> FALSE]
  /\ last = Ran("c1", "init", NoMsg, "none", <<>>, <<>>)
  /\ http = [i \in Requests |-> NotReceived]
  /\ created = <<>>

(* ------------------------- handlers (pure part) ----------------------- *)

\* Mutant of Send: the new frames overtake the ones already sent.
SendFront(sent, frames) == frames \o sent

\* socket.send(frame), once per frame: the socket carries the frames in the
\* order of the calls.
Send(sent, frames) == sent \o frames

\* What a handler passes to connection.send and to elevenLabsWs.send.
Emit(toCarrier, toAi) == [toCarrier |-> toCarrier, toAi |-> toAi]
Nothing == Emit(<<>>, <<>>)

\* Mutant of CaseAudio: the payload is forwarded without the test on it.
CaseAudioUnchecked(message, sid) ==
  IF message.body
    THEN Emit(<<MediaFrame(sid, JsonGet(message.val))>>, <<>>)
    ELSE Nothing

\* case "audio" of handleElevenLabsMessage
CaseAudio(message, sid) ==
  IF message.body /\ Truthy(JsonGet(message.val))
    THEN Emit(<<MediaFrame(sid, JsonGet(message.val))>>, <<>>)
    ELSE Nothing

\* Mutant of CaseInterruption: the clear frame is sent without streamSid.
CaseInterruptionUntagged(message, sid) == Emit(<<ClearFrame(Undefined)>>, <<>>)

\* case "interruption" of handleElevenLabsMessage
CaseInterruption(message, sid) == Emit(<<ClearFrame(sid)>>, <<>>)

\* case "ping" of handleElevenLabsMessage
CasePing(message, sid) ==
  IF message.body /\ Truthy(JsonGet(message.val))
    THEN Emit(<<>>, <<PongFrame(JsonGet(message.val))>>)
    ELSE Nothing

\* handleElevenLabsMessage: the switch on message.type
handleElevenLabsMessage(message, sid) ==
  CASE message.type = "conversation_initiation_metadata" -> Nothing
    [] message.type = "audio" -> CaseAudio(message, sid)
    [] message.type = "interruption" -> CaseInterruption(message, sid)
    [] message.type = "ping" -> CasePing(message, sid)
    [] OTHER -> Nothing

\* elevenLabsWs.on("message"): a JSON.parse failure is caught and logged
OnElevenLabsMessage(data, sid) ==
  IF data.ok THEN handleElevenLabsMessage(data, sid) ELSE Nothing

\* The result of the carrier message handler: the new streamSid, the new
\* readyState of elevenLabsWs, and what was passed to elevenLabsWs.send.
Res(sid, ready, toAi) == [streamSid |-> sid, ready |-> ready, toAi |-> toAi]

\* elevenLabsWs.close() on an open socket: readyState becomes CLOSING
CloseIfOpen(ready) == IF ready = "open" THEN "closing" ELSE ready

\* Mutant of CaseStart: only the first start frame sets streamSid.
CaseStartKeepsFirst(data, sid, ready) ==
  IF data.body /\ sid = Null
    THEN Res(JsonGet(data.val), ready, <<>>)
    ELSE Res(sid, ready, <<>>)

\* Mutant of CaseStart: data.start?.streamSid, so a missing start object
\* stores undefined.
CaseStartOptional(data, sid, ready) ==
  IF data.body
    THEN Res(JsonGet(data.val), ready, <<>>)
    ELSE Res(Undefined, ready, <<>>)

\* case "start": data.start.streamSid throws when data.start is missing
CaseStart(data, sid, ready) ==
  IF data.body
    THEN Res(JsonGet(data.val), ready, <<>>)
    ELSE Res(sid, ready, <<>>)

\* Mutant of CaseMedia: the chunk is sent unless the socket is closed or
\* still connecting.
CaseMediaWhileClosing(data, sid, ready) ==
  IF ready \in {"open", "closing"} /\ data.body
    THEN Res(sid, ready, <<ChunkFrame(JsonGet(data.val))>>)
    ELSE Res(sid, ready, <<>>)

\* Mutant of CaseMedia: no test of readyState.
CaseMediaUnguarded(data, sid, ready) ==
  IF data.body
    THEN Res(sid, ready, <<ChunkFrame(JsonGet(data.val))>>)
    ELSE Res(sid, ready, <<>>)

\* Mutant of CaseMedia: the chunk is sent unless the socket is connecting.
CaseMediaWhenNotConnecting(data, sid, ready) ==
  IF ready # "connecting" /\ data.body
    THEN Res(sid, ready, <<ChunkFrame(JsonGet(data.val))>>)
    ELSE Res(sid, ready, <<>>)

\* case "media": the readyState test comes before data.media.payload is read
CaseMedia(data, sid, ready) ==
  IF ready = "open" /\ data.body
    THEN Res(sid, ready, <<ChunkFrame(JsonGet(data.val))>>)
    ELSE Res(sid, ready, <<>>)

\* Mutant of CaseStop: the stop frame clears streamSid.
CaseStopResets(data, sid, ready) == Res(Null, CloseIfOpen(ready), <<>>)

\* case "stop"
CaseStop(data, sid, ready) == Res(sid, CloseIfOpen(ready), <<>>)

\* the switch on data.event
HandleCarrierMessage(data, sid, ready) ==
  CASE data.type = "start" -> CaseStart(data, sid, ready)
    [] data.type = "media" -> CaseMedia(data, sid, ready)
    [] data.type = "stop" -> CaseStop(data, sid, ready)
    [] OTHER -> Res(sid, ready, <<>>)

\* Mutant of OnCarrierMessage: a JSON.parse failure ends the AI connection.
OnCarrierMessageFatal(data, sid, ready) ==
  IF data.ok
    THEN HandleCarrierMessage(data, sid, ready)
    ELSE Res(sid, CloseIfOpen(ready), <<>>)

\* connection.on("message"): a JSON.parse failure is caught and logged
OnCarrierMessage(data, sid, ready) ==
  IF data.ok THEN HandleCarrierMessage(data, sid, ready) ELSE Res(sid, ready, <<>>)

\* Mutant of OnCarrierClose: the handler only logs.
OnCarrierCloseOnlyLogs(ready) == ready

\* connection.on("close"): the new readyState of elevenLabsWs
OnCarrierClose(ready) == CloseIfOpen(ready)

\* connection.on("error"): the new readyState of elevenLabsWs
OnCarrierError(ready) == CloseIfOpen(ready)

\* Mutant of OnAiClose: the handler closes the carrier connection too.
OnAiCloseClosesCarrier(conn) == IF conn = "open" THEN "closing" ELSE conn

\* elevenLabsWs.on("open" / "error" / "close") only log: the state of the
\* carrier connection after each of them
OnAiOpen(conn) == conn
OnAiError(conn) == conn
OnAiClose(conn) == conn

(* --------------------------- history helpers -------------------------- *)

\* The message carries a payload: a non-empty string.
HasPayload(m) == m.ok /\ m.body /\ m.val.t = "string" /\ m.val.s # ""

\* The message carries an event identifier: a number or a non-empty string.
HasEventId(m) ==
  m.ok /\ m.body /\ (m.val.t = "number" \/ (m.val.t = "string" /\ m.val.s # ""))

\* The carrier messages recorded in recvMedia.
IsMedia(m) == m.ok /\ m.type = "media"

\* The AI messages recorded in recvAi.
IsRelayed(m) ==
  \/ m.type = "audio" /\ HasPayload(m)
  \/ m.ok /\ m.type = "interruption"
  \/ m.type = "ping" /\ HasEventId(m)

LogRoom(s) == Len(recvMedia[s]) + Len(recvAi[s]) < MaxLog

(* ------------------------------ actions ------------------------------- *)

\* fastifyInstance.get("/media-stream", ...): the carrier connects
Connect(s) ==
  /\ connection[s] = "absent"
  /\ connection' = [connection EXCEPT ![s] = "open"]
  /\ streamSid' = [streamSid EXCEPT ![s] = Null]
  /\ readyState' = [readyState EXCEPT ![s] = "connecting"]
  /\ aiCreated' = [aiCreated EXCEPT ![s] = @ + 1]
  /\ last' = Ran(s, "connect", NoMsg, readyState[s], <<>>, <<>>)
  /\ UNCHANGED <<sentToCarrier, sentToAi, recvMedia, recvAi, lastStart,
                 stopSeen, httpVars>>

\* connection.on("message")
\* As CarrierMessage, with one stream identifier shared by every connection.
CarrierMessageSharedSid(s, m) ==
  /\ connection[s] = "open"
  /\ IsMedia(m) => LogRoom(s)
  /\ LET r == OnCarrierMessage(m, streamSid[s], readyState[s]) IN
       /\ streamSid' = [t \in Sessions |-> r.streamSid]
       /\ readyState' = [readyState EXCEPT ![s] = r.ready]
       /\ sentToAi' = [sentToAi EXCEPT ![s] = Send(@, r.toAi)]
       /\ last' = Ran(s, "carrier_message", m, readyState[s], <<>>, r.toAi)
  /\ recvMedia' =
       [recvMedia EXCEPT ![s] = IF IsMedia(m) THEN Append(@, m.val) ELSE @]
  /\ lastStart' =
       [lastStart EXCEPT
          ![s] = IF m.ok /\ m.type = "start" /\ m.body THEN m.val ELSE @]
  /\ stopSeen' = [stopSeen EXCEPT ![s] = @ \/ (m.ok /\ m.type = "stop")]
  /\ UNCHANGED <<connection, sentToCarrier, aiCreated, recvAi, httpVars>>

CarrierMessage(s, m) ==
  /\ connection[s] = "open"
  /\ IsMedia(m) => LogRoom(s)
  /\ LET r == OnCarrierMessage(m, streamSid[s], readyState[s]) IN
       /\ streamSid' = [streamSid EXCEPT ![s] = r.streamSid]
       /\ readyState' = [readyState EXCEPT ![s] = r.ready]
       /\ sentToAi' = [sentToAi EXCEPT ![s] = Send(@, r.toAi)]
       /\ last' = Ran(s, "carrier_message", m, readyState[s], <<>>, r.toAi)
  /\ recvMedia' =
       [recvMedia EXCEPT ![s] = IF IsMedia(m) THEN Append(@, m.val) ELSE @]
  /\ lastStart' =
       [lastStart EXCEPT
          ![s] = IF m.ok /\ m.type = "start" /\ m.body THEN m.val ELSE @]
  /\ stopSeen' = [stopSeen EXCEPT ![s] = @ \/ (m.ok /\ m.type = "stop")]
  /\ UNCHANGED <<connection, sentToCarrier, aiCreated, recvAi, httpVars>>

\* elevenLabsWs.on("message"): delivered while the socket is open, and
\* while it is closing until the close handshake completes
AiMessage(s, m) ==
  /\ readyState[s] \in {"open", "closing"}
  /\ IsRelayed(m) => LogRoom(s)
  /\ LET e == OnElevenLabsMessage(m, streamSid[s]) IN
       /\ sentToCarrier' = [sentToCarrier EXCEPT ![s] = Send(@, e.toCarrier)]
       /\ sentToAi' = [sentToAi EXCEPT ![s] = Send(@, e.toAi)]
       /\ last' = Ran(s, "ai_message", m, readyState[s], e.toCarrier, e.toAi)
  /\ recvAi' = [recvAi EXCEPT ![s] = IF IsRelayed(m) THEN Append(@, m) ELSE @]
  /\ UNCHANGED <<connection, readyState, streamSid, aiCreated, recvMedia,
                 lastStart, stopSeen, httpVars>>

\* elevenLabsWs.on("open")
AiOpen(s) ==
  /\ readyState[s] = "connecting"
  /\ readyState' = [readyState EXCEPT ![s] = "open"]
  /\ connection' = [connection EXCEPT ![s] = OnAiOpen(@)]
  /\ last' = Ran(s, "ai_open", NoMsg, readyState[s], <<>>, <<>>)
  /\ UNCHANGED <<streamSid, sentToCarrier, sentToAi, aiCreated, recvMedia,
                 recvAi, lastStart, stopSeen, httpVars>>

\* elevenLabsWs.on("error"): the socket is on its way to closed
AiError(s) ==
  /\ readyState[s] \in {"connecting", "open", "closing"}
  /\ readyState' = [readyState EXCEPT ![s] = "closing"]
  /\ connection' = [connection EXCEPT ![s] = OnAiError(@)]
  /\ last' = Ran(s, "ai_error", NoMsg, readyState[s], <<>>, <<>>)
  /\ UNCHANGED <<streamSid, sentToCarrier, sentToAi, aiCreated, recvMedia,
                 recvAi, lastStart, stopSeen, httpVars>>

\* Mutant of AiClose: the close handler connects again.
AiCloseReconnects(s) ==
  /\ readyState[s] \in {"open", "closing"}
  /\ readyState' = [readyState EXCEPT ![s] = "connecting"]
  /\ aiCreated' = [aiCreated EXCEPT ![s] = @ + 1]
  /\ connection' = [connection EXCEPT ![s] = OnAiClose(@)]
  /\ last' = Ran(s, "ai_close", NoMsg, readyState[s], <<>>, <<>>)
  /\ UNCHANGED <<streamSid, sentToCarrier, sentToAi, recvMedia, recvAi,
                 lastStart, stopSeen, httpVars>>

\* elevenLabsWs.on("close"): the peer closed, or a close completed
AiClose(s) ==
  /\ readyState[s] \in {"open", "closing"}
  /\ readyState' = [readyState EXCEPT ![s] = "closed"]
  /\ connection' = [connection EXCEPT ![s] = OnAiClose(@)]
  /\ last' = Ran(s, "ai_close", NoMsg, readyState[s], <<>>, <<>>)
  /\ UNCHANGED <<streamSid, sentToCarrier, sentToAi, aiCreated, recvMedia,
                 recvAi, lastStart, stopSeen, httpVars>>

\* connection.on("close")
CarrierClose(s) ==
  /\ connection[s] \in {"open", "closing"}
  /\ connection' = [connection EXCEPT ![s] = "closed"]
  /\ readyState' = [readyState EXCEPT ![s] = OnCarrierClose(@)]
  /\ last' = Ran(s, "carrier_close", NoMsg, readyState[s], <<>>, <<>>)
  /\ UNCHANGED <<streamSid, sentToCarrier, sentToAi, aiCreated, recvMedia,
                 recvAi, lastStart, stopSeen, httpVars>>

\* connection.on("error"): the carrier socket is on its way to closed
CarrierError(s) ==
  /\ connection[s] = "open"
  /\ connection' = [connection EXCEPT ![s] = "closing"]
  /\ readyState' = [readyState EXCEPT ![s] = OnCarrierError(@)]
  /\ last' = Ran(s, "carrier_error", NoMsg, readyState[s], <<>>, <<>>)
  /\ UNCHANGED <<streamSid, sentToCarrier, sentToAi, aiCreated, recvMedia,
                 recvAi, lastStart, stopSeen, httpVars>>

\* The events of session s, its messages drawn from the given sets.
StepWith(s, carrierMsgs, aiMsgs) ==
  \/ Connect(s)
  \/ \E m \in carrierMsgs : CarrierMessage(s, m)
  \/ \E m \in aiMsgs : AiMessage(s, m)
  \/ AiOpen(s)
  \/ AiError(s)
  \/ AiClose(s)
  \/ CarrierClose(s)
  \/ CarrierError(s)

Next == \E s \in SingleSession : StepWith(s, CarrierMsgs, AiMsgs)

Spec == Init /\ [][Next]_vars

\* A close that has begun completes: the peer answers the close frame, or
\* the close timer of the socket destroys the connection.
AiCloseDone(s) == readyState[s] = "closing" /\ AiClose(s)

\* The messages that matter to the life of the two sockets.
LifecycleCarrierMsgs ==
  {Garbage, Msg(TRUE, "start", TRUE, Str("MZ1")),
   Msg(TRUE, "media", TRUE, Str("pA")), Msg(TRUE, "stop", FALSE, Absent)}

LifecycleAiMsgs ==
  {Msg(TRUE, "audio", TRUE, Str("pA")), Msg(TRUE, "ping", TRUE, Num(7))}

FairNext ==
  \E s \in SingleSession : StepWith(s, LifecycleCarrierMsgs, LifecycleAiMsgs)

FairSpec ==
  /\ Init
  /\ [][FairNext]_vars
  /\ \A s \in SingleSession : WF_vars(AiCloseDone(s))

\* Two sessions at once, each with messages of its own: the identifier and
\* the payloads of one session never occur in the messages of the other.
OwnSid(s) == IF s = "c1" THEN Str("MZ1") ELSE Str("MZ2")
OwnPayload(s) == IF s = "c1" THEN Str("pA") ELSE Str("pB")

MultiCarrierMsgs(s) ==
  {Msg(TRUE, "start", TRUE, OwnSid(s)), Msg(TRUE, "media", TRUE, OwnPayload(s))}

MultiAiMsgs(s) == {Msg(TRUE, "audio", TRUE, OwnPayload(s))}

MultiNext ==
  \E s \in Sessions : StepWith(s, MultiCarrierMsgs(s), MultiAiMsgs(s))

MultiSpec == Init /\ [][MultiNext]_vars

(* ----------------------- POST /make-outbound-call -------------------- *)

\* const { to } = request.body; if (!to) ...: "throw" when request.body is
\* undefined (the destructuring is outside the try), "reject" when to is
\* falsy, "create" otherwise.
ReadTo(body) ==
  IF ~body.defined THEN "throw"
  ELSE IF ~Truthy(JsonGet(body.to)) THEN "reject"
  ELSE "create"

\* twilioClient.calls.create({ url, to, from })
CreateCall(i, body) == [request |-> i, to |-> JsonGet(body.to)]

\* The handler up to its reply or to the await of calls.create.  A throw
\* leaves the handler without a reply of its own: the server answers 500.
MakeOutboundCall(i, body) ==
  /\ http[i].pc = "idle"
  /\ LET r == ReadTo(body) IN
       /\ http' =
            [http EXCEPT
               ![i] =
                 CASE r = "throw" ->
                        Request("replied", body, "", 500, "Internal Server Error", "")
                   [] r = "reject" ->
                        Request("replied", body, "", 400,
                                "Destination phone number is required", "")
                   [] OTHER -> Request("awaiting", body, "", 0, "", "")]
       /\ created' =
            IF r = "create" THEN Append(created, CreateCall(i, body)) ELSE created
  /\ UNCHANGED relayVars

\* calls.create resolves: reply.send({ message: "Call initiated", callSid })
CallCreated(i, sid) ==
  /\ http[i].pc = "awaiting"
  /\ http' =
       [http EXCEPT ![i] = Request("replied", @.body, sid, 200, "", sid)]
  /\ UNCHANGED <<created, relayVars>>

\* Mutant of CallFailed: the call is created once more before the reply.
CallFailedRetries(i) ==
  /\ http[i].pc = "awaiting"
  /\ http' =
       [http EXCEPT
          ![i] = Request("replied", @.body, "failed", 500,
                         "Failed to initiate call", "")]
  /\ created' = Append(created, CreateCall(i, http[i].body))
  /\ UNCHANGED relayVars

\* calls.create rejects: reply.status(500).send({ error: ... })
CallFailed(i) ==
  /\ http[i].pc = "awaiting"
  /\ http' =
       [http EXCEPT
          ![i] = Request("replied", @.body, "failed", 500,
                         "Failed to initiate call", "")]
  /\ UNCHANGED <<created, relayVars>>

HttpNext ==
  \E i \in Requests :
    \/ \E body \in Bodies : MakeOutboundCall(i, body)
    \/ \E sid \in CallSids : CallCreated(i, sid)
    \/ CallFailed(i)

HttpSpec == Init /\ [][HttpNext]_vars

(* ------------------------- claim vocabulary --------------------------- *)

RanCarrier(type) ==
  last.op = "carrier_message" /\ last.msg.ok /\ last.msg.type = type

RanAi(type) == last.op = "ai_message" /\ last.msg.ok /\ last.msg.type = type

\* The session identifier on the wire: that of the most recent start frame
\* processed, null while there has been none.
SessionId(s) == IF lastStart[s] = NoStart THEN Null ELSE lastStart[s]

LastOf(seq) == seq[Len(seq)]

AiLive(s) == readyState[s] \in {"connecting", "open"}

(* -------------------------------- C1 ---------------------------------- *)

\* C1: once a carrier stop frame has been processed, the AI socket has been
\* closed if it was open at that moment, and no carrier media frame received
\* after the stop is forwarded to the AI socket, whatever state the AI socket
\* was in when the stop arrived.
C1_StopEndsForwarding ==
  /\ (RanCarrier("stop") /\ last.aiBefore = "open")
       => readyState[last.s] \in {"closing", "closed"}
  /\ (RanCarrier("media") /\ stopSeen[last.s]) => last.toAi = <<>>

(* -------------------------------- C2 ---------------------------------- *)

\* C2: in every state in which the carrier socket of a session has closed or
\* errored, the AI socket of the session is neither connecting nor open.
C2_AiNeverOutlivesCarrier ==
  \A s \in Sessions : connection[s] \in {"closing", "closed"} => ~AiLive(s)

(* -------------------------------- C3 ---------------------------------- *)

\* C3: when the carrier socket closes or errors while the AI socket is open,
\* that handler begins the close of the AI socket; a closing or closed AI
\* socket is never open again; and a closing AI socket reaches closed.
C3_CarrierCloseClosesOpenAi ==
  /\ [][\A s \in Sessions :
          (last'.op \in {"carrier_close", "carrier_error"} /\ last'.s = s
             /\ readyState[s] = "open") => readyState'[s] = "closing"]_vars
  /\ [][\A s \in Sessions :
          readyState[s] \in {"closing", "closed"} => readyState'[s] # "open"]_vars
  /\ \A s \in Sessions : (readyState[s] = "closing") ~> (readyState[s] = "closed")

\* The carrier socket closed or errored with the AI socket open.
C3_Witness ==
  /\ last.op \in {"carrier_close", "carrier_error"}
  /\ last.aiBefore = "open"
  /\ readyState[last.s] = "closing"

(* -------------------------------- C4 ---------------------------------- *)

\* C4: the state of the carrier socket changes only when the carrier
\* connects, closes or errors; no AI-side handler and no carrier message
\* (stop included) changes it.
C4_OnlyCarrierEventsCloseCarrier ==
  [][\A s \in Sessions :
       connection'[s] # connection[s]
         => /\ last'.s = s
            /\ last'.op \in {"connect", "carrier_close", "carrier_error"}]_vars

\* The AI socket has closed and the carrier socket is still open.
C4_Witness ==
  /\ last.op = "ai_close"
  /\ readyState[last.s] = "closed"
  /\ connection[last.s] = "open"

(* -------------------------------- C5 ---------------------------------- *)

\* C5: an AI audio message that carries a payload makes the relay send
\* exactly one frame on the carrier socket: event "media", the same payload,
\* and the identifier of the most recent start frame processed before it
\* (null before any start).
C5_AudioForwardedWithSessionId ==
  (RanAi("audio") /\ HasPayload(last.msg))
    => /\ last.toCarrier =
            <<[event |-> "media", streamSid |-> SessionId(last.s),
               payload |-> last.msg.val]>>
       /\ Len(sentToCarrier[last.s]) > 0
       /\ LastOf(sentToCarrier[last.s]) = last.toCarrier[1]

\* Audio with a payload, handled after a start frame that replaced the
\* identifier of an earlier one.
C5_Witness ==
  /\ RanAi("audio") /\ HasPayload(last.msg)
  /\ lastStart[last.s] = Str("MZ1")
  /\ Len(sentToCarrier[last.s]) = 2
  /\ sentToCarrier[last.s][1].streamSid = Str("MZ2")
  /\ sentToCarrier[last.s][2].streamSid = Str("MZ1")

(* -------------------------------- C6 ---------------------------------- *)

\* C6: an AI ping that carries an event identifier makes the relay send
\* exactly one pong with the same identifier on the AI socket and nothing on
\* the carrier socket, with the AI socket open or closing.
C6_PingAnsweredByPong ==
  (RanAi("ping") /\ HasEventId(last.msg))
    => /\ last.toAi = <<[type |-> "pong", val |-> last.msg.val]>>
       /\ last.toCarrier = <<>>

(* -------------------------------- C7 ---------------------------------- *)

\* The AI messages that C7 is about.
C7_Ignored(l) ==
  /\ l.op = "ai_message" /\ l.msg.ok
  /\ \/ l.msg.type = "audio" /\ ~HasPayload(l.msg)
     \/ l.msg.type = "conversation_initiation_metadata"
     \/ l.msg.type = "ping" /\ ~HasEventId(l.msg)
     \/ l.msg.type \notin
          {"audio", "conversation_initiation_metadata", "ping", "interruption"}

\* C7: audio without a payload, conversation_initiation_metadata, a ping
\* without an event identifier and a message of an unrecognised type send
\* nothing on either socket and leave streamSid and both socket states as
\* they were.
C7_IgnoredAiMessagesChangeNothing ==
  [][C7_Ignored(last')
       => /\ last'.toCarrier = <<>> /\ last'.toAi = <<>>
          /\ UNCHANGED <<sentToCarrier, sentToAi, streamSid, readyState,
                         connection>>]_vars

\* Audio whose payload is the empty string has been handled.
C7_Witness ==
  /\ RanAi("audio") /\ last.msg.body /\ last.msg.val = Str("")
  /\ sentToCarrier[last.s] = <<>>
  /\ streamSid[last.s] = Str("MZ1")

(* -------------------------------- C8 ---------------------------------- *)

\* C8: an AI interruption message makes the relay send exactly one frame on
\* the carrier socket, event "clear" with the session identifier, and
\* nothing on the AI socket.
C8_InterruptionClearsCarrier ==
  RanAi("interruption")
    => /\ last.toCarrier =
            <<[event |-> "clear", streamSid |-> SessionId(last.s),
               payload |-> Absent]>>
       /\ last.toAi = <<>>
       /\ Len(sentToCarrier[last.s]) > 0
       /\ LastOf(sentToCarrier[last.s]) = last.toCarrier[1]

\* An interruption handled after a start frame.
C8_Witness ==
  /\ RanAi("interruption")
  /\ lastStart[last.s] = Str("MZ2")
  /\ LastOf(sentToCarrier[last.s]).streamSid = Str("MZ2")

(* -------------------------------- C9 ---------------------------------- *)

\* C9: a message that does not parse, on either socket, sends nothing and
\* leaves streamSid, both socket states and everything sent so far as they
\* were; the handlers read nothing else, so the messages that follow are
\* handled as if it had not arrived.
C9_MalformedMessageDiscarded ==
  [][(last'.op \in {"carrier_message", "ai_message"} /\ ~last'.msg.ok)
       => /\ last'.toCarrier = <<>> /\ last'.toAi = <<>>
          /\ UNCHANGED <<sentToCarrier, sentToAi, streamSid, readyState,
                         connection, aiCreated>>]_vars

\* A malformed carrier message handled with both sockets open and both
\* still open.
C9_Witness ==
  /\ last.op = "carrier_message" /\ ~last.msg.ok
  /\ last.aiBefore = "open"
  /\ readyState[last.s] = "open"
  /\ connection[last.s] = "open"
  /\ streamSid[last.s] = Str("MZ1")

(* -------------------------------- C10 --------------------------------- *)

RECURSIVE IsSubseq(_, _)
\* a is b with some elements left out
IsSubseq(a, b) ==
  IF a = <<>> THEN TRUE
  ELSE IF b = <<>> THEN FALSE
  ELSE IF Head(a) = Head(b) THEN IsSubseq(Tail(a), Tail(b))
  ELSE IsSubseq(a, Tail(b))

IsChunk(f) == f.type = "user_audio_chunk"

\* The audio chunks sent on the AI socket, in order.
Chunks(s) ==
  LET c == SelectSeq(sentToAi[s], IsChunk) IN [i \in 1..Len(c) |-> c[i].val]

IsForwardable(m) == m.type \in {"audio", "interruption"}

\* The AI audio and interruption messages received, in order.
Forwardable(s) == SelectSeq(recvAi[s], IsForwardable)

\* The carrier frame that answers an AI audio or interruption message.
Answers(f, m) ==
  \/ m.type = "audio" /\ f.event = "media" /\ f.payload = m.val
  \/ m.type = "interruption" /\ f.event = "clear"

\* C10: the audio chunks sent on the AI socket are, in order, a subsequence
\* of the carrier media payloads received; the frames sent on the carrier
\* socket answer, one for one and in order, the AI audio and interruption
\* messages received.
C10_ForwardingKeepsOrder ==
  \A s \in Sessions :
    /\ IsSubseq(Chunks(s), recvMedia[s])
    /\ Len(sentToCarrier[s]) = Len(Forwardable(s))
    /\ \A i \in 1..Len(sentToCarrier[s]) :
         Answers(sentToCarrier[s][i], Forwardable(s)[i])

\* Two different chunks forwarded, one after the other.
C10_Witness ==
  \E s \in Sessions :
    /\ Len(Chunks(s)) = 2
    /\ Chunks(s)[1] # Chunks(s)[2]

(* -------------------------------- C13 --------------------------------- *)

\* The destination-number field is absent from the request.
FieldAbsent(body) == ~body.defined \/ body.to = Absent

\* The calls of calls.create made for request i.
CreatedFor(i) == {k \in 1..Len(created) : created[k].request = i}

\* C13: a POST /make-outbound-call request without the destination-number
\* field is answered 400 with error "Destination phone number is required",
\* and no call-creation request is made for it.
C13_MissingDestinationRejected ==
  \A i \in Requests :
    (http[i].pc # "idle" /\ FieldAbsent(http[i].body))
      => /\ http[i].pc = "replied"
         /\ http[i].status = 400
         /\ http[i].error = "Destination phone number is required"
         /\ CreatedFor(i) = {}

(* -------------------------------- C14 --------------------------------- *)

\* The request carries a destination number.
CarriesDestination(body) == body.defined /\ body.to \in Destinations

\* C14: a POST /make-outbound-call request that carries a destination number
\* makes exactly one call-creation request; when it succeeds the reply is
\* 200 with the call identifier of the provider, when it fails the reply is
\* 500 with error "Failed to initiate call", and it is not made again.
C14_OneCallCreationPerRequest ==
  \A i \in Requests :
    (http[i].pc # "idle" /\ CarriesDestination(http[i].body))
      => /\ Cardinality(CreatedFor(i)) = 1
         /\ \A k \in CreatedFor(i) : created[k].to = http[i].body.to
         /\ http[i].pc = "replied"
              => \/ /\ http[i].provider \in CallSids
                    /\ http[i].status = 200
                    /\ http[i].callSid = http[i].provider
                 \/ /\ http[i].provider = "failed"
                    /\ http[i].status = 500
                    /\ http[i].error = "Failed to initiate call"

\* One request answered 200 and another answered 500.
C14_Witness ==
  \E i, j \in Requests :
    /\ http[i].pc = "replied" /\ http[i].status = 200
    /\ http[i].callSid = "CA456"
    /\ http[j].pc = "replied" /\ http[j].provider = "failed"
    /\ Len(created) = 2

(* -------------------------------- C11 --------------------------------- *)

\* C11: a carrier media frame is forwarded, as one chunk with its payload,
\* exactly when the AI socket is open as the frame is handled; otherwise
\* nothing is sent, and no chunk is ever sent outside the handler of its own
\* frame (nothing is kept and sent once the socket opens).
C11_MediaForwardedIffOpen ==
  /\ []((RanCarrier("media") /\ last.msg.body)
          => last.toAi =
               IF last.aiBefore = "open"
                 THEN <<[type |-> "user_audio_chunk", val |-> last.msg.val]>>
                 ELSE <<>>)
  /\ [][\A s \in Sessions :
          Chunks(s)' # Chunks(s)
            => /\ last'.s = s /\ last'.op = "carrier_message"
               /\ last'.msg.ok /\ last'.msg.type = "media"
               /\ readyState[s] = "open"
               /\ Chunks(s)' = Append(Chunks(s), last'.msg.val)]_vars

\* A media frame dropped while the socket was connecting, the socket then
\* open, and only the media frame that came after it forwarded.
C11_Witness ==
  /\ RanCarrier("media") /\ last.aiBefore = "open"
  /\ recvMedia[last.s] = <<Str("pA"), Str("pB")>>
  /\ Chunks(last.s) = <<Str("pB")>>

(* -------------------------------- C12 --------------------------------- *)

\* C12: a session creates exactly one AI connection, when the carrier
\* connects, and never another; a closed AI socket stays closed.
C12_OneAiConnectionPerSession ==
  /\ [](\A s \in Sessions :
          /\ aiCreated[s] = IF connection[s] = "absent" THEN 0 ELSE 1
          /\ readyState[s] = "none" <=> connection[s] = "absent")
  /\ [][\A s \in Sessions :
          readyState[s] = "closed" => readyState'[s] = "closed"]_vars

\* A start frame handled after the AI socket has closed.
C12_Witness ==
  /\ RanCarrier("start") /\ last.msg.body
  /\ last.aiBefore = "closed"
  /\ readyState[last.s] = "closed"
  /\ stopSeen[last.s]
  /\ aiCreated[last.s] = 1

(* -------------------------------- C15 --------------------------------- *)

\* C15: streamSid is null until the first start frame is processed and is
\* afterwards the identifier of the most recent one; only a start frame
\* changes it; a carrier frame of an unknown event sends nothing and changes
\* no socket state.
C15_OnlyStartSetsStreamSid ==
  /\ [](\A s \in Sessions : streamSid[s] = SessionId(s))
  /\ [][\A s \in Sessions :
          streamSid'[s] # streamSid[s]
            => /\ last'.s = s /\ last'.op = "carrier_message"
               /\ last'.msg.ok /\ last'.msg.type = "start" /\ last'.msg.body
               /\ streamSid'[s] = last'.msg.val]_vars
  /\ [][(/\ last'.op = "carrier_message" /\ last'.msg.ok
         /\ last'.msg.type \notin {"start", "media", "stop"})
          => /\ last'.toCarrier = <<>> /\ last'.toAi = <<>>
             /\ UNCHANGED <<sentToCarrier, sentToAi, streamSid, readyState,
                            connection>>]_vars

\* A stop frame handled after a start frame, the identifier kept.
C15_Witness ==
  /\ RanCarrier("stop") /\ last.aiBefore = "open"
  /\ streamSid[last.s] = Str("MZ2")

(* -------------------------------- C17 --------------------------------- *)

\* C17: nothing is passed to elevenLabsWs.send while the socket is
\* connecting: a chunk is sent only by a media frame handled with the socket
\* open, a pong only by the handler of an AI message, which does not run
\* before the socket has opened.
C17_NoSendWhileConnecting ==
  /\ \A s \in Sessions : readyState[s] = "connecting" => sentToAi[s] = <<>>
  /\ last.op = "ai_message" => last.aiBefore \in {"open", "closing"}
  /\ \A k \in 1..Len(last.toAi) :
       IF IsChunk(last.toAi[k])
         THEN last.op = "carrier_message" /\ last.aiBefore = "open"
         ELSE last.op = "ai_message" /\ last.toAi[k].type = "pong"

\* A media frame handled while the socket was connecting: nothing sent.
C17_Witness ==
  /\ RanCarrier("media") /\ last.msg.body
  /\ last.aiBefore = "connecting"
  /\ readyState[last.s] = "connecting"
  /\ Len(recvMedia[last.s]) = 2

(* -------------------------------- C18 --------------------------------- *)

\* C18: from a state in which the AI socket of a session is closed, no step
\* sends a frame on either socket of the session.
C18_NothingSentAfterAiClosed ==
  [][\A s \in Sessions :
       readyState[s] = "closed"
         => /\ sentToCarrier'[s] = sentToCarrier[s]
            /\ sentToAi'[s] = sentToAi[s]
            /\ last'.s = s => last'.toCarrier = <<>> /\ last'.toAi = <<>>]_vars

\* A media frame handled with the AI socket closed and the carrier socket
\* open.
C18_Witness ==
  /\ RanCarrier("media") /\ last.msg.body
  /\ last.aiBefore = "closed"
  /\ connection[last.s] = "open"
  /\ sentToAi[last.s] # <<>>

(* -------------------------------- C19 --------------------------------- *)

\* C19: a start frame without its start object, and a media frame without
\* its media object handled with the AI socket open, send nothing and leave
\* streamSid and both socket states as they were.
C19_IncompleteFrameDiscarded ==
  [][(/\ last'.op = "carrier_message" /\ last'.msg.ok /\ ~last'.msg.body
      /\ \/ last'.msg.type = "start"
         \/ last'.msg.type = "media" /\ readyState[last'.s] = "open")
       => /\ last'.toCarrier = <<>> /\ last'.toAi = <<>>
          /\ UNCHANGED <<sentToCarrier, sentToAi, streamSid, readyState,
                         connection>>]_vars

\* A start frame without its start object handled after a start frame.
C19_Witness ==
  /\ RanCarrier("start") /\ ~last.msg.body
  /\ last.aiBefore = "open"
  /\ readyState[last.s] = "open"
  /\ streamSid[last.s] = Str("MZ1")

(* -------------------------------- C16 --------------------------------- *)

\* What the relay holds and has sent for one session.
SessionState(s) ==
  <<connection[s], readyState[s], streamSid[s], sentToCarrier[s], sentToAi[s]>>

\* The payloads of the AI audio messages received by a session.
AudioReceived(s) ==
  {recvAi[s][i].val : i \in {j \in 1..Len(recvAi[s]) : recvAi[s][j].type = "audio"}}

\* The payloads of the carrier media frames received by a session.
MediaReceived(s) == {recvMedia[s][i] : i \in 1..Len(recvMedia[s])}

\* C16: with several sessions at once, every frame sent on a session's
\* carrier socket carries that session's stream identifier (or none, before
\* its first start) and a payload received on that session's AI socket;
\* every chunk sent on a session's AI socket is a payload received on that
\* session's carrier socket; and a handler running for one session,
\* closing its sockets included, leaves every other session's sockets,
\* identifier and sent frames as they were.
C16_SessionsIsolated ==
  /\ [](\A s \in Sessions :
          /\ streamSid[s] = SessionId(s)
          /\ \A i \in 1..Len(sentToCarrier[s]) :
               LET f == sentToCarrier[s][i] IN
                 /\ f.streamSid \in {Null, OwnSid(s)}
                 /\ f.event = "media" => f.payload \in AudioReceived(s)
          /\ \A k \in 1..Len(last.toCarrier) :
               last.s = s => last.toCarrier[k].streamSid = SessionId(s)
          /\ \A i \in 1..Len(Chunks(s)) : Chunks(s)[i] \in MediaReceived(s))
  /\ [][\A s \in Sessions :
          last'.s # s => SessionState(s)' = SessionState(s)]_vars

\* Both sessions have relayed audio under their own identifiers, and the
\* carrier of one has just closed, its AI socket with it, while the
\* other session is open.
C16_Witness ==
  /\ \A s \in Sessions :
       /\ sentToCarrier[s] # <<>>
       /\ LastOf(sentToCarrier[s]) = MediaFrame(OwnSid(s), OwnPayload(s))
  /\ last.s = "c1" /\ last.op = "carrier_close" /\ last.aiBefore = "open"
  /\ connection["c1"] = "closed" /\ readyState["c1"] = "closing"
  /\ connection["c2"] = "open" /\ readyState["c2"] = "open"
  /\ streamSid["c2"] = OwnSid("c2")

====
